---- MODULE Spec2Model ----
(***************************************************************************)
(* Model of app.py of the IT news aggregator: the Naver dedup pass, the    *)
(* Google feed truncation, the read-through cache fetch_and_cache_news     *)
(* over the DynamoDB table, the HTTP handlers that use it and the          *)
(* scheduled refresh handler.                                              *)
(*                                                                         *)
(* Text (links, titles) is a sequence of one-character strings, so that    *)
(* the regular expression, split, strip and replace of the source are      *)
(* computed rather than assumed.                                           *)
(***************************************************************************)
EXTENDS Integers, Sequences, FiniteSets, TLC

VARIABLES
    \* ---- configuration and the outside world
    clock,        \* the UTC epoch second get_current_utc_timestamp() returns
    table,        \* news_cache_table: category -> stored record
    runtime,      \* Python the program runs on: "py39" (3.9) or "py310" (3.10 to 3.13)
    invocations,  \* number of handler invocations that have arrived
    gemini_model, \* "None" or "configured" (set once at import time)
    lastPut,      \* history: category -> the call whose put_item was accepted last
    \* ---- the handler invocations in flight
    handler,      \* which entry point the invocation runs ("idle" before it arrives)
    pc,           \* position inside the handler / fetch_and_cache_news
    news_type,    \* argument of the running fetch_and_cache_news call
    current_timestamp, \* local of fetch_and_cache_news (line 133)
    item,         \* local of fetch_and_cache_news (line 138)
    getOutcome,   \* history: how the cache lookup of the running call ended
    news_data,    \* local of fetch_and_cache_news (line 154)
    retval,       \* value returned by the running fetch_and_cache_news call
    first_result, \* korean_news / naver_result of a two-call handler
    response,     \* what the handler returned
    fetchCount,   \* history: provider fetches made by the running call
    putCount,     \* history: put_item calls made by the running call
    putOutcome,   \* history: how the put_item of the running call ended
    geminiCalls,  \* history: generate_content calls of the invocation
    \* ---- the Naver response under test (specification SpecNaver)
    apiItems,     \* response.json().get("items", [])
    naverResult,  \* what _fetch_naver_news_from_api returned for apiItems
    unidata_version \* history: the Unicode database NaverFetch matched against

vars == << clock, table, runtime, invocations, gemini_model, lastPut, handler, pc,
           news_type, current_timestamp, item, getOutcome, news_data, retval,
           first_result, response, fetchCount, putCount, putOutcome,
           geminiCalls, apiItems, naverResult, unidata_version >>

cacheVars == << clock, table, runtime, invocations, gemini_model, lastPut, handler, pc,
                news_type, current_timestamp, item, getOutcome, news_data,
                retval, first_result, response, fetchCount, putCount,
                putOutcome, geminiCalls >>

naverVars == << apiItems, naverResult, unidata_version >>

----------------------------------------------------------------------------
(* Program constants *)

CACHE_TTL_SECONDS == 3600

\* the Naver loop stops at 12 collected entries (line 94)
MaxNaverNews == 12

\* feed.entries[:12] (line 118)
MaxGoogleNews == 12

(* Bounds of the model *)

\* seconds the clock advances per Tick
TickSeconds == 1800

\* the clock stops advancing here
MaxTime == 3600


\* longest Naver response explored by SpecNaver
MaxItems == 14

\* leading entries of a Naver response drawn freely from SpecialEntries
MaxPrefix == 2

\* handler invocations that arrive in one behaviour
MaxInvocations == 2

----------------------------------------------------------------------------
(* Text helpers: Python str operations on sequences of characters *)

\* A character outside ASCII is written as its code point, "U+0661".

AsciiDigits == {"0", "1", "2", "3", "4", "5", "6", "7", "8", "9"}

\* the decimal digits (category Nd) outside ASCII of Unicode 13
UnicodeDigits ==
    {
      "U+0660", "U+0661", "U+0662", "U+0663", "U+0664", "U+0665", "U+0666", "U+0667", "U+0668", "U+0669",
      "U+06F0", "U+06F1", "U+06F2", "U+06F3", "U+06F4", "U+06F5", "U+06F6", "U+06F7", "U+06F8", "U+06F9",
      "U+07C0", "U+07C1", "U+07C2", "U+07C3", "U+07C4", "U+07C5", "U+07C6", "U+07C7", "U+07C8", "U+07C9",
      "U+0966", "U+0967", "U+0968", "U+0969", "U+096A", "U+096B", "U+096C", "U+096D", "U+096E", "U+096F",
      "U+09E6", "U+09E7", "U+09E8", "U+09E9", "U+09EA", "U+09EB", "U+09EC", "U+09ED", "U+09EE", "U+09EF",
      "U+0A66", "U+0A67", "U+0A68", "U+0A69", "U+0A6A", "U+0A6B", "U+0A6C", "U+0A6D", "U+0A6E", "U+0A6F",
      "U+0AE6", "U+0AE7", "U+0AE8", "U+0AE9", "U+0AEA", "U+0AEB", "U+0AEC", "U+0AED", "U+0AEE", "U+0AEF",
      "U+0B66", "U+0B67", "U+0B68", "U+0B69", "U+0B6A", "U+0B6B", "U+0B6C", "U+0B6D", "U+0B6E", "U+0B6F",
      "U+0BE6", "U+0BE7", "U+0BE8", "U+0BE9", "U+0BEA", "U+0BEB", "U+0BEC", "U+0BED", "U+0BEE", "U+0BEF",
      "U+0C66", "U+0C67", "U+0C68", "U+0C69", "U+0C6A", "U+0C6B", "U+0C6C", "U+0C6D", "U+0C6E", "U+0C6F",
      "U+0CE6", "U+0CE7", "U+0CE8", "U+0CE9", "U+0CEA", "U+0CEB", "U+0CEC", "U+0CED", "U+0CEE", "U+0CEF",
      "U+0D66", "U+0D67", "U+0D68", "U+0D69", "U+0D6A", "U+0D6B", "U+0D6C", "U+0D6D", "U+0D6E", "U+0D6F",
      "U+0DE6", "U+0DE7", "U+0DE8", "U+0DE9", "U+0DEA", "U+0DEB", "U+0DEC", "U+0DED", "U+0DEE", "U+0DEF",
      "U+0E50", "U+0E51", "U+0E52", "U+0E53", "U+0E54", "U+0E55", "U+0E56", "U+0E57", "U+0E58", "U+0E59",
      "U+0ED0", "U+0ED1", "U+0ED2", "U+0ED3", "U+0ED4", "U+0ED5", "U+0ED6", "U+0ED7", "U+0ED8", "U+0ED9",
      "U+0F20", "U+0F21", "U+0F22", "U+0F23", "U+0F24", "U+0F25", "U+0F26", "U+0F27", "U+0F28", "U+0F29",
      "U+1040", "U+1041", "U+1042", "U+1043", "U+1044", "U+1045", "U+1046", "U+1047", "U+1048", "U+1049",
      "U+1090", "U+1091", "U+1092", "U+1093", "U+1094", "U+1095", "U+1096", "U+1097", "U+1098", "U+1099",
      "U+17E0", "U+17E1", "U+17E2", "U+17E3", "U+17E4", "U+17E5", "U+17E6", "U+17E7", "U+17E8", "U+17E9",
      "U+1810", "U+1811", "U+1812", "U+1813", "U+1814", "U+1815", "U+1816", "U+1817", "U+1818", "U+1819",
      "U+1946", "U+1947", "U+1948", "U+1949", "U+194A", "U+194B", "U+194C", "U+194D", "U+194E", "U+194F",
      "U+19D0", "U+19D1", "U+19D2", "U+19D3", "U+19D4", "U+19D5", "U+19D6", "U+19D7", "U+19D8", "U+19D9",
      "U+1A80", "U+1A81", "U+1A82", "U+1A83", "U+1A84", "U+1A85", "U+1A86", "U+1A87", "U+1A88", "U+1A89",
      "U+1A90", "U+1A91", "U+1A92", "U+1A93", "U+1A94", "U+1A95", "U+1A96", "U+1A97", "U+1A98", "U+1A99",
      "U+1B50", "U+1B51", "U+1B52", "U+1B53", "U+1B54", "U+1B55", "U+1B56", "U+1B57", "U+1B58", "U+1B59",
      "U+1BB0", "U+1BB1", "U+1BB2", "U+1BB3", "U+1BB4", "U+1BB5", "U+1BB6", "U+1BB7", "U+1BB8", "U+1BB9",
      "U+1C40", "U+1C41", "U+1C42", "U+1C43", "U+1C44", "U+1C45", "U+1C46", "U+1C47", "U+1C48", "U+1C49",
      "U+1C50", "U+1C51", "U+1C52", "U+1C53", "U+1C54", "U+1C55", "U+1C56", "U+1C57", "U+1C58", "U+1C59",
      "U+A620", "U+A621", "U+A622", "U+A623", "U+A624", "U+A625", "U+A626", "U+A627", "U+A628", "U+A629",
      "U+A8D0", "U+A8D1", "U+A8D2", "U+A8D3", "U+A8D4", "U+A8D5", "U+A8D6", "U+A8D7", "U+A8D8", "U+A8D9",
      "U+A900", "U+A901", "U+A902", "U+A903", "U+A904", "U+A905", "U+A906", "U+A907", "U+A908", "U+A909",
      "U+A9D0", "U+A9D1", "U+A9D2", "U+A9D3", "U+A9D4", "U+A9D5", "U+A9D6", "U+A9D7", "U+A9D8", "U+A9D9",
      "U+A9F0", "U+A9F1", "U+A9F2", "U+A9F3", "U+A9F4", "U+A9F5", "U+A9F6", "U+A9F7", "U+A9F8", "U+A9F9",
      "U+AA50", "U+AA51", "U+AA52", "U+AA53", "U+AA54", "U+AA55", "U+AA56", "U+AA57", "U+AA58", "U+AA59",
      "U+ABF0", "U+ABF1", "U+ABF2", "U+ABF3", "U+ABF4", "U+ABF5", "U+ABF6", "U+ABF7", "U+ABF8", "U+ABF9",
      "U+FF10", "U+FF11", "U+FF12", "U+FF13", "U+FF14", "U+FF15", "U+FF16", "U+FF17", "U+FF18", "U+FF19",
      "U+104A0", "U+104A1", "U+104A2", "U+104A3", "U+104A4", "U+104A5", "U+104A6", "U+104A7", "U+104A8", "U+104A9",
      "U+10D30", "U+10D31", "U+10D32", "U+10D33", "U+10D34", "U+10D35", "U+10D36", "U+10D37", "U+10D38", "U+10D39",
      "U+11066", "U+11067", "U+11068", "U+11069", "U+1106A", "U+1106B", "U+1106C", "U+1106D", "U+1106E", "U+1106F",
      "U+110F0", "U+110F1", "U+110F2", "U+110F3", "U+110F4", "U+110F5", "U+110F6", "U+110F7", "U+110F8", "U+110F9",
      "U+11136", "U+11137", "U+11138", "U+11139", "U+1113A", "U+1113B", "U+1113C", "U+1113D", "U+1113E", "U+1113F",
      "U+111D0", "U+111D1", "U+111D2", "U+111D3", "U+111D4", "U+111D5", "U+111D6", "U+111D7", "U+111D8", "U+111D9",
      "U+112F0", "U+112F1", "U+112F2", "U+112F3", "U+112F4", "U+112F5", "U+112F6", "U+112F7", "U+112F8", "U+112F9",
      "U+11450", "U+11451", "U+11452", "U+11453", "U+11454", "U+11455", "U+11456", "U+11457", "U+11458", "U+11459",
      "U+114D0", "U+114D1", "U+114D2", "U+114D3", "U+114D4", "U+114D5", "U+114D6", "U+114D7", "U+114D8", "U+114D9",
      "U+11650", "U+11651", "U+11652", "U+11653", "U+11654", "U+11655", "U+11656", "U+11657", "U+11658", "U+11659",
      "U+116C0", "U+116C1", "U+116C2", "U+116C3", "U+116C4", "U+116C5", "U+116C6", "U+116C7", "U+116C8", "U+116C9",
      "U+11730", "U+11731", "U+11732", "U+11733", "U+11734", "U+11735", "U+11736", "U+11737", "U+11738", "U+11739",
      "U+118E0", "U+118E1", "U+118E2", "U+118E3", "U+118E4", "U+118E5", "U+118E6", "U+118E7", "U+118E8", "U+118E9",
      "U+11950", "U+11951", "U+11952", "U+11953", "U+11954", "U+11955", "U+11956", "U+11957", "U+11958", "U+11959",
      "U+11C50", "U+11C51", "U+11C52", "U+11C53", "U+11C54", "U+11C55", "U+11C56", "U+11C57", "U+11C58", "U+11C59",
      "U+11D50", "U+11D51", "U+11D52", "U+11D53", "U+11D54", "U+11D55", "U+11D56", "U+11D57", "U+11D58", "U+11D59",
      "U+11DA0", "U+11DA1", "U+11DA2", "U+11DA3", "U+11DA4", "U+11DA5", "U+11DA6", "U+11DA7", "U+11DA8", "U+11DA9",
      "U+16A60", "U+16A61", "U+16A62", "U+16A63", "U+16A64", "U+16A65", "U+16A66", "U+16A67", "U+16A68", "U+16A69",
      "U+16B50", "U+16B51", "U+16B52", "U+16B53", "U+16B54", "U+16B55", "U+16B56", "U+16B57", "U+16B58", "U+16B59",
      "U+1D7CE", "U+1D7CF", "U+1D7D0", "U+1D7D1", "U+1D7D2", "U+1D7D3", "U+1D7D4", "U+1D7D5", "U+1D7D6", "U+1D7D7",
      "U+1D7D8", "U+1D7D9", "U+1D7DA", "U+1D7DB", "U+1D7DC", "U+1D7DD", "U+1D7DE", "U+1D7DF", "U+1D7E0", "U+1D7E1",
      "U+1D7E2", "U+1D7E3", "U+1D7E4", "U+1D7E5", "U+1D7E6", "U+1D7E7", "U+1D7E8", "U+1D7E9", "U+1D7EA", "U+1D7EB",
      "U+1D7EC", "U+1D7ED", "U+1D7EE", "U+1D7EF", "U+1D7F0", "U+1D7F1", "U+1D7F2", "U+1D7F3", "U+1D7F4", "U+1D7F5",
      "U+1D7F6", "U+1D7F7", "U+1D7F8", "U+1D7F9", "U+1D7FA", "U+1D7FB", "U+1D7FC", "U+1D7FD", "U+1D7FE", "U+1D7FF",
      "U+1E140", "U+1E141", "U+1E142", "U+1E143", "U+1E144", "U+1E145", "U+1E146", "U+1E147", "U+1E148", "U+1E149",
      "U+1E2F0", "U+1E2F1", "U+1E2F2", "U+1E2F3", "U+1E2F4", "U+1E2F5", "U+1E2F6", "U+1E2F7", "U+1E2F8", "U+1E2F9",
      "U+1E950", "U+1E951", "U+1E952", "U+1E953", "U+1E954", "U+1E955", "U+1E956", "U+1E957", "U+1E958", "U+1E959",
      "U+1FBF0", "U+1FBF1", "U+1FBF2", "U+1FBF3", "U+1FBF4", "U+1FBF5", "U+1FBF6", "U+1FBF7", "U+1FBF8", "U+1FBF9" }

\* the decimal digits Unicode 14 added
Unicode14Digits ==
    { "U+16AC0", "U+16AC1", "U+16AC2", "U+16AC3", "U+16AC4", "U+16AC5", "U+16AC6", "U+16AC7", "U+16AC8", "U+16AC9" }

\* the decimal digits Unicode 15 added
Unicode15Digits ==
    { "U+11F50", "U+11F51", "U+11F52", "U+11F53", "U+11F54", "U+11F55", "U+11F56", "U+11F57", "U+11F58", "U+11F59",
      "U+1E4F0", "U+1E4F1", "U+1E4F2", "U+1E4F3", "U+1E4F4", "U+1E4F5", "U+1E4F6", "U+1E4F7", "U+1E4F8", "U+1E4F9" }

\* the Pythons the program can be run on, no version being pinned: "py39" is
\* Python 3.9, "py310" is Python 3.10 to 3.13
Runtimes == {"py39", "py310"}

\* the Unicode database of the interpreters, by the major version of
\* unicodedata.unidata_version: 13.0.0 in Python 3.9 and 3.10, 14.0.0 in 3.11,
\* 15.0.0 in 3.12 and 15.1.0 in 3.13, the last two with the same decimal digits
UnicodeDatabases(rt) ==
    IF rt = "py39" THEN {"13"} ELSE {"13", "14", "15"}

AllDatabases == UNION {UnicodeDatabases(rt) : rt \in Runtimes}

DigitsByDatabase ==
    [db \in AllDatabases |->
        AsciiDigits \cup UnicodeDigits
            \cup (IF db \in {"14", "15"} THEN Unicode14Digits ELSE {})
            \cup (IF db = "15" THEN Unicode15Digits ELSE {})]

\* what \d of a str pattern compiled without re.ASCII accepts (line 72): the
\* decimal digits of the interpreter's Unicode database
Digits(db) == DigitsByDatabase[db]

DigitChars == << "0", "1", "2", "3", "4", "5", "6", "7", "8", "9" >>

\* does pat occur in s at index i
StartsWithAt(s, pat, i) ==
    /\ i >= 1
    /\ i + Len(pat) - 1 <= Len(s)
    /\ \A k \in 1..Len(pat) : s[i + k - 1] = pat[k]

\* index of the first non-digit at or after i (Len(s)+1 when none): \d+ is greedy
RECURSIVE DigitRunEnd(_, _, _)
DigitRunEnd(s, i, db) ==
    IF i <= Len(s) /\ s[i] \in Digits(db) THEN DigitRunEnd(s, i + 1, db) ELSE i

Slice(s, a, b) == IF a > b THEN << >> ELSE SubSeq(s, a, b)

\* str.split(sep)[0] for a one-character sep
RECURSIVE SplitFirst(_, _)
SplitFirst(s, sep) ==
    IF s = << >> \/ Head(s) = sep THEN << >>
    ELSE << Head(s) >> \o SplitFirst(Tail(s), sep)

RECURSIVE LStrip(_, _)
LStrip(s, c) == IF s # << >> /\ Head(s) = c THEN LStrip(Tail(s), c) ELSE s

RECURSIVE RStrip(_, _)
RStrip(s, c) ==
    IF s # << >> /\ s[Len(s)] = c THEN RStrip(Slice(s, 1, Len(s) - 1), c) ELSE s

\* str.strip(c)
Strip(s, c) == RStrip(LStrip(s, c), c)

\* str.replace(pat, rep): non-overlapping occurrences, left to right
RECURSIVE Replace(_, _, _)
Replace(s, pat, rep) ==
    IF s = << >> THEN << >>
    ELSE IF StartsWithAt(s, pat, 1)
         THEN rep \o Replace(Slice(s, Len(pat) + 1, Len(s)), pat, rep)
         ELSE << Head(s) >> \o Replace(Tail(s), pat, rep)

----------------------------------------------------------------------------
(* _fetch_naver_news_from_api, lines 70-99 *)

\* the literal part of r'article/(\d+)/(\d+)'
ArticlePrefix == << "a", "r", "t", "i", "c", "l", "e", "/" >>

NoMatch == [found |-> FALSE, g1 |-> << >>, g2 |-> << >>]

\* the pattern anchored at index i
MatchAt(s, i, db) ==
    IF ~StartsWithAt(s, ArticlePrefix, i) THEN NoMatch
    ELSE LET a  == i + Len(ArticlePrefix)
             e1 == DigitRunEnd(s, a, db)
             b  == e1 + 1
             e2 == DigitRunEnd(s, b, db)
         IN IF e1 > a /\ e1 <= Len(s) /\ s[e1] = "/" /\ e2 > b
            THEN [found |-> TRUE, g1 |-> Slice(s, a, e1 - 1),
                  g2 |-> Slice(s, b, e2 - 1)]
            ELSE NoMatch

\* naver_article_id_pattern.search(link): the leftmost match
RECURSIVE SearchFrom(_, _, _)
SearchFrom(s, i, db) ==
    IF i > Len(s) THEN NoMatch
    ELSE IF MatchAt(s, i, db).found THEN MatchAt(s, i, db)
         ELSE SearchFrom(s, i + 1, db)

PatternSearch(s, db) == SearchFrom(s, 1, db)

\* unique_key, lines 78-83
UniqueKey(link, db) ==
    LET match == PatternSearch(link, db)
    IN IF match.found THEN match.g1 \o << "_" >> \o match.g2
       ELSE Strip(SplitFirst(link, "?"), "/")

\* clean_title, line 75
CleanTitle(title) ==
    Replace(Replace(Replace(title, << "&", "q", "u", "o", "t", ";" >>, << "\"" >>),
                    << "<", "b", ">" >>, << >>),
            << "<", "/", "b", ">" >>, << >>)

\* news values: a list of items, or the error dict the fetchers return
NewsList(s) == [kind |-> "list", error |-> "", items |-> s]

ErrorValue(msg) == [kind |-> "error", error |-> msg, items |-> << >>]

NotRun == [kind |-> "none", error |-> "", items |-> << >>]

\* "error" in value: true of the error dict, false of a list of dicts
HasError(v) == v.kind = "error"

\* the condition that adds an entry, line 85
IsNewKey(key, unique_news_links) == key \notin unique_news_links

\* faulty variant: the limit test off by one
LimitReachedLate(news_list) == Len(news_list) > MaxNaverNews

\* the condition that ends the loop, line 94
LimitReached(news_list) == Len(news_list) >= MaxNaverNews

\* the for loop, lines 74-95
RECURSIVE NaverLoop(_, _, _, _, _)
NaverLoop(items, i, unique_news_links, news_list, db) ==
    IF i > Len(items) THEN news_list
    ELSE LET entry == items[i]
             unique_key == UniqueKey(entry.link, db)
             fresh == IsNewKey(unique_key, unique_news_links)
             links == IF fresh THEN unique_news_links \cup {unique_key}
                      ELSE unique_news_links
             list  == IF fresh
                      THEN Append(news_list,
                                  [id |-> Len(news_list) + 1,
                                   title |-> CleanTitle(entry.title),
                                   link |-> entry.link])
                      ELSE news_list
         IN IF LimitReached(list) THEN list
            ELSE NaverLoop(items, i + 1, links, list, db)

\* the success path on a decoded response
NaverNews(items, db) == NewsList(NaverLoop(items, 1, {}, << >>, db))

----------------------------------------------------------------------------
(* Inputs of SpecNaver *)

Digit(n) == DigitChars[n + 1]

\* the k-th of a family of article links with pairwise distinct identifiers
FreshLink(k) == ArticlePrefix \o << Digit(k \div 10), "/", Digit(k % 10) >>

PlainTitle == << "n", "e", "w", "s" >>

MarkedTitle == << "<", "b", ">", "A", "I", "<", "/", "b", ">", "&", "q", "u", "o", "t", ";" >>

FreshEntry(k) == [title |-> PlainTitle, link |-> FreshLink(k)]

\* entries whose keys collide with others in ways the dedup must handle
SpecialEntries ==
    { \* same identifier as FreshLink(1), another link
      [title |-> MarkedTitle, link |-> FreshLink(1) \o << "?", "x" >>],
      \* identifier 0_12: a greedy second group keeps it apart from 0_1
      [title |-> PlainTitle,
       link |-> << "n", "/" >> \o ArticlePrefix \o << "0", "/", "1", "2", "/" >>],
      \* no identifier: "/x/a/?q" and "x/a" share the key "x/a"
      [title |-> PlainTitle, link |-> << "/", "x", "/", "a", "/", "?", "q" >>],
      [title |-> MarkedTitle, link |-> << "x", "/", "a" >>],
      \* "article/7/z" does not match: no digits after the second slash
      [title |-> PlainTitle, link |-> ArticlePrefix \o << "7", "/", "z" >>],
      \* an identifier in non-ASCII digits: the key U+0663_U+0664
      [title |-> PlainTitle,
       link |-> << "x", "/" >> \o ArticlePrefix \o << "U+0663", "/", "U+0664" >>],
      \* the same key under Unicode 13, where U+16AC2 is no digit, and the key
      \* U+0663_U+0664U+16AC2 under Unicode 14 and 15
      [title |-> MarkedTitle,
       link |-> << "y", "/" >> \o ArticlePrefix
                \o << "U+0663", "/", "U+0664", "U+16AC2" >>],
      \* the same key under Unicode 13 and 14, where U+11F52 is no digit, and
      \* the key U+0663_U+0664U+11F52 under Unicode 15
      [title |-> PlainTitle,
       link |-> << "z", "/" >> \o ArticlePrefix
                \o << "U+0663", "/", "U+0664", "U+11F52" >>] }

\* the special entry that may close a response: after the entry of key
\* U+0663_U+0664 it is a late repeat under Unicode 13 and a late new key under
\* Unicode 14 and 15
ClosingEntries ==
    { [title |-> MarkedTitle,
       link |-> << "y", "/" >> \o ArticlePrefix
                \o << "U+0663", "/", "U+0664", "U+16AC2" >>] }

FreshCount(items) ==
    Cardinality({i \in 1..Len(items) : items[i] \notin SpecialEntries})

\* a special entry already closes the response
TailClosed(items) ==
    \E i \in (MaxPrefix + 1)..Len(items) : items[i] \in SpecialEntries

\* the entries the provider may put next
NextEntries(items) ==
    (IF Len(items) < MaxPrefix THEN SpecialEntries ELSE ClosingEntries)
        \cup {FreshEntry(FreshCount(items) + 1)}

\* the provider appends one more entry to the response it will return: the
\* first MaxPrefix entries are any, then come fresh ones, and one closing
\* entry may end the response
NaverRespond ==
    /\ naverResult = NotRun
    /\ Len(apiItems) < MaxItems
    /\ ~TailClosed(apiItems)
    /\ \E entry \in NextEntries(apiItems) : apiItems' = Append(apiItems, entry)
    /\ UNCHANGED << naverResult, unidata_version, cacheVars >>

\* _fetch_naver_news_from_api on that response, the pattern matching against
\* the Unicode database of the interpreter in use
NaverFetch ==
    /\ naverResult = NotRun
    /\ \E db \in UnicodeDatabases(runtime) :
          /\ unidata_version' = db
          /\ naverResult' = NaverNews(apiItems, db)
    /\ UNCHANGED << apiItems, cacheVars >>

----------------------------------------------------------------------------
(* _fetch_google_news_from_api, lines 116-125 *)

Min(a, b) == IF a < b THEN a ELSE b

\* feed.entries[:12], numbered from 1
GoogleNews(entries) ==
    NewsList([i \in 1..Min(Len(entries), MaxGoogleNews) |->
                 [id |-> i, title |-> entries[i].title, link |-> entries[i].link]])

----------------------------------------------------------------------------
(* The two providers as the cache sees them *)

Categories == {"naver", "google"}

\* responses the Naver API can give in this model: none, or two entries
\* with the same key "n/1" and a third one
NaverResponses ==
    { << >>,
      << [title |-> << "a" >>, link |-> << "n", "/", "1" >>],
         [title |-> << "b" >>, link |-> << "/", "n", "/", "1", "/", "?", "q" >>],
         [title |-> << "c" >>, link |-> << "n", "/", "2" >>] >> }

\* feeds Google can give in this model
GoogleFeeds ==
    { << >>,
      << [title |-> << "g" >>, link |-> << "g", "/", "1" >>],
         [title |-> << "h" >>, link |-> << "g", "/", "2" >>] >> }

\* the error dict of line 51 (those of 102, 105 and 108 differ in text only)
NaverErrors == { ErrorValue("naver_keys") }

\* the error dict of line 128
GoogleErrors == { ErrorValue("google_error") }

\* what _fetch_naver_news_from_api can return on each Python
NaverResults ==
    [rt \in Runtimes |->
        {NaverNews(r, db) : r \in NaverResponses, db \in UnicodeDatabases(rt)}
            \cup NaverErrors]

\* what _fetch_google_news_from_api can return
GoogleResults == {GoogleNews(f) : f \in GoogleFeeds} \cup GoogleErrors

\* everything one provider call can return, lines 155-160
ProviderResults(type, rt) ==
    IF type = "naver" THEN NaverResults[rt]
    ELSE IF type = "google" THEN GoogleResults
    ELSE {ErrorValue("unsupported")}

----------------------------------------------------------------------------
(* The cache table: one Item per category, attributes data and ttl *)

\* json.dumps / json.loads
Dumps(v) == [enc |-> "json", val |-> v]

NoData == [enc |-> "absent", val |-> NotRun]

Garbage == [enc |-> "garbage", val |-> NotRun]

\* a DynamoDB attribute: Number, String or absent
NumberAttr(n) == [t |-> "N", n |-> n]

StringAttr == [t |-> "S", n |-> 0]

NoAttr == [t |-> "absent", n |-> 0]

\* startedAt is history: current_timestamp of the call that wrote the record
NoRecord == [present |-> FALSE, data |-> NoData, ttl |-> NoAttr, startedAt |-> 0]

\* the Item of lines 170-176
NewItem(data, ttl_timestamp, startedAt) ==
    [present |-> TRUE, data |-> Dumps(data), ttl |-> NumberAttr(ttl_timestamp),
     startedAt |-> startedAt]

\* records another writer left in the table that the read path cannot use:
\* one with a ttl that is no number (the comparison of line 141 raises) and
\* one with a payload that is no JSON (line 142 or line 146 raises)
StringTtlRecord ==
    [present |-> TRUE, data |-> Dumps(NewsList(<< >>)), ttl |-> StringAttr,
     startedAt |-> 0]

GarbageRecord ==
    [present |-> TRUE, data |-> Garbage,
     ttl |-> NumberAttr(MaxTime + CACHE_TTL_SECONDS), startedAt |-> 0]

\* a table that holds such a record under each key
PoisonedTable ==
    [c \in Categories |-> IF c = "naver" THEN GarbageRecord ELSE StringTtlRecord]

\* faulty variant: the write updates ttl alone when the key already holds an Item
PutItemTtlOnly(tbl, key, newItem) ==
    IF tbl[key].present
    THEN [tbl EXCEPT ![key] = [@ EXCEPT !.ttl = newItem.ttl]]
    ELSE [tbl EXCEPT ![key] = newItem]

\* put_item replaces the whole Item under its key
PutItem(tbl, key, newItem) == [tbl EXCEPT ![key] = newItem]

\* what get_item of the Table resource (lines 33-35) hands to Python: a
\* Number arrives as decimal.Decimal
ToPython(rec) ==
    [present |-> rec.present,
     data |-> rec.data,
     ttl |-> [py |-> IF rec.ttl.t = "N" THEN "Decimal"
                     ELSE IF rec.ttl.t = "S" THEN "str" ELSE "absent",
              n |-> rec.ttl.n],
     startedAt |-> rec.startedAt]

NoItem == ToPython(NoRecord)

\* the call that wrote a record: what it had fetched and when it started
NoCall == [present |-> FALSE, data |-> NotRun, start |-> 0]

WritingCall(data, start) == [present |-> TRUE, data |-> data, start |-> start]

----------------------------------------------------------------------------
(* fetch_and_cache_news, lines 130-182 *)

\* faulty variant: a record is still served in the second it expires
TtlNotPast(ttl_value, now) == ttl_value >= now

\* int(item.get('ttl', 0)) > current_timestamp, line 141
TtlInFuture(ttl_value, now) == ttl_value > now

\* datetime.fromtimestamp(item['ttl'], ...) inside the print of line 142, on
\* the Decimal the table hands over: up to Python 3.9 the argument is
\* converted through __int__ (with a DeprecationWarning), from Python 3.10
\* on it raises TypeError; a str raises on every Python
FromTimestampRaises(ttl, rt) ==
    ttl.py = "str" \/ (ttl.py = "Decimal" /\ rt = "py310")

\* faulty variant: the validity window starts when the record is written
TtlFromWriteTime(callStart, timeOfWrite) == timeOfWrite + CACHE_TTL_SECONDS

\* current_timestamp + CACHE_TTL_SECONDS, line 167
TtlTimestamp(callStart, timeOfWrite) == callStart + CACHE_TTL_SECONDS

\* lines 138-149 on the Item get_item returned
CacheLookup(it, now, rt) ==
    IF ~it.present THEN [outcome |-> "absent", value |-> NotRun]
    ELSE IF it.ttl.py = "str"
         THEN [outcome |-> "unreadable", value |-> NotRun]
    ELSE IF ~TtlInFuture(IF it.ttl.py = "absent" THEN 0 ELSE it.ttl.n, now)
         THEN [outcome |-> "expired", value |-> NotRun]
    ELSE IF FromTimestampRaises(it.ttl, rt)
         THEN [outcome |-> "unreadable", value |-> NotRun]
    ELSE IF it.data.enc # "json"
         THEN [outcome |-> "unreadable", value |-> NotRun]
    ELSE [outcome |-> "hit", value |-> it.data.val]

\* faulty variant: an error dict is cached like a batch
AlwaysPut(data) == "put"

\* lines 162-163: an error dict ends the call, a batch goes on to the write
AfterFetch(data) == IF HasError(data) THEN "ret" ELSE "put"

\* faulty variant: a failed write is reported to the caller
PutErrorReturned(data) == ErrorValue("store")

\* what the call returns after put_item raised, lines 179-182
AfterPutRaised(data) == data

Procs == {"request", "scheduler"}

HttpHandlers == {"get_all_news", "summarize_naver_news", "summarize_google_news"}

Handlers(p) ==
    IF p = "request" THEN HttpHandlers ELSE {"refresh_news_cache_handler"}

TwoCallHandlers == {"get_all_news", "refresh_news_cache_handler"}

FirstType(h) == IF h = "summarize_google_news" THEN "google" ELSE "naver"

NoResponse == [status |-> 0, body |-> ""]

\* lines 132-133: a call starts by reading the clock
BeginCall(p, type) ==
    /\ news_type' = [news_type EXCEPT ![p] = type]
    /\ current_timestamp' = [current_timestamp EXCEPT ![p] = clock]
    /\ item' = [item EXCEPT ![p] = NoItem]
    /\ getOutcome' = [getOutcome EXCEPT ![p] = ""]
    /\ news_data' = [news_data EXCEPT ![p] = NotRun]
    /\ retval' = [retval EXCEPT ![p] = NotRun]
    /\ fetchCount' = [fetchCount EXCEPT ![p] = 0]
    /\ putCount' = [putCount EXCEPT ![p] = 0]
    /\ putOutcome' = [putOutcome EXCEPT ![p] = ""]
    /\ pc' = [pc EXCEPT ![p] = "get"]

\* an invocation arrives, whatever the other one is doing: its handler starts
\* and makes the first fetch_and_cache_news call
Invoke(p) ==
    /\ pc[p] = "idle"
    /\ invocations < MaxInvocations
    /\ invocations' = invocations + 1
    /\ \E h \in Handlers(p) :
          /\ handler' = [handler EXCEPT ![p] = h]
          /\ BeginCall(p, FirstType(h))
    /\ first_result' = [first_result EXCEPT ![p] = NotRun]
    /\ response' = [response EXCEPT ![p] = NoResponse]
    /\ geminiCalls' = [geminiCalls EXCEPT ![p] = 0]
    /\ UNCHANGED << clock, table, runtime, gemini_model, lastPut, naverVars >>

\* lines 136-149: get_item, then return the payload or fall through
CacheGet(p) ==
    /\ pc[p] = "get"
    /\ \E raised \in BOOLEAN :
          IF raised
          THEN /\ getOutcome' = [getOutcome EXCEPT ![p] = "get_raised"]
               /\ pc' = [pc EXCEPT ![p] = "fetch"]
               /\ UNCHANGED << item, retval >>
          ELSE LET it == ToPython(table[news_type[p]])
                   found == CacheLookup(it, current_timestamp[p], runtime)
               IN /\ item' = [item EXCEPT ![p] = it]
                  /\ getOutcome' = [getOutcome EXCEPT ![p] = found.outcome]
                  /\ IF found.outcome = "hit"
                     THEN /\ retval' = [retval EXCEPT ![p] = found.value]
                          /\ pc' = [pc EXCEPT ![p] = "ret"]
                     ELSE /\ pc' = [pc EXCEPT ![p] = "fetch"]
                          /\ UNCHANGED retval
    /\ UNCHANGED << clock, table, runtime, invocations, gemini_model, lastPut, handler,
                    news_type, current_timestamp, news_data, first_result,
                    response, fetchCount, putCount, putOutcome,
                    geminiCalls, naverVars >>

\* lines 154-163: one provider call; an error dict is returned at once
ProviderFetch(p) ==
    /\ pc[p] = "fetch"
    /\ \E result \in ProviderResults(news_type[p], runtime) :
          /\ news_data' = [news_data EXCEPT ![p] = result]
          /\ pc' = [pc EXCEPT ![p] = AfterFetch(result)]
          /\ retval' = [retval EXCEPT ![p] =
                 IF AfterFetch(result) = "ret" THEN result ELSE @]
    /\ fetchCount' = [fetchCount EXCEPT ![p] = @ + 1]
    /\ UNCHANGED << clock, table, runtime, invocations, gemini_model, lastPut, handler,
                    news_type, current_timestamp, item, getOutcome,
                    first_result, response, putCount, putOutcome, geminiCalls,
                    naverVars >>

\* lines 166-182: put_item, then return the fresh batch
CachePut(p) ==
    /\ pc[p] = "put"
    /\ \E accepted \in BOOLEAN :
          LET newItem == NewItem(news_data[p],
                                 TtlTimestamp(current_timestamp[p], clock),
                                 current_timestamp[p])
          IN IF accepted
             THEN /\ table' = PutItem(table, news_type[p], newItem)
                  /\ lastPut' = [lastPut EXCEPT ![news_type[p]] =
                         WritingCall(news_data[p], current_timestamp[p])]
                  /\ putOutcome' = [putOutcome EXCEPT ![p] = "accepted"]
                  /\ retval' = [retval EXCEPT ![p] = news_data[p]]
             ELSE /\ putOutcome' = [putOutcome EXCEPT ![p] = "raised"]
                  /\ retval' = [retval EXCEPT ![p] = AfterPutRaised(news_data[p])]
                  /\ UNCHANGED << table, lastPut >>
    /\ putCount' = [putCount EXCEPT ![p] = @ + 1]
    /\ pc' = [pc EXCEPT ![p] = "ret"]
    /\ UNCHANGED << clock, runtime, invocations, gemini_model, handler, news_type,
                    current_timestamp, item, getOutcome, news_data,
                    first_result, response, fetchCount, geminiCalls, naverVars >>

----------------------------------------------------------------------------
(* The handlers, lines 186-296 and 364-386 *)

\* the frame of the finished fetch_and_cache_news call is gone
PopCall(p) ==
    /\ current_timestamp' = [current_timestamp EXCEPT ![p] = 0]
    /\ item' = [item EXCEPT ![p] = NoItem]
    /\ getOutcome' = [getOutcome EXCEPT ![p] = ""]
    /\ news_data' = [news_data EXCEPT ![p] = NotRun]
    /\ fetchCount' = [fetchCount EXCEPT ![p] = 0]
    /\ putCount' = [putCount EXCEPT ![p] = 0]
    /\ putOutcome' = [putOutcome EXCEPT ![p] = ""]

\* get_all_news line 191, refresh_news_cache_handler line 377: the second call
NextCall(p) ==
    /\ pc[p] = "ret"
    /\ handler[p] \in TwoCallHandlers
    /\ news_type[p] = "naver"
    /\ first_result' = [first_result EXCEPT ![p] = retval[p]]
    /\ BeginCall(p, "google")
    /\ UNCHANGED << clock, table, runtime, invocations, gemini_model, lastPut, handler,
                    response, geminiCalls, naverVars >>

\* lines 193-200 and 383-386: the status of a two-call handler
Respond(p) ==
    /\ pc[p] = "ret"
    /\ handler[p] \in TwoCallHandlers
    /\ news_type[p] = "google"
    /\ response' = [response EXCEPT ![p] =
           IF HasError(first_result[p]) \/ HasError(retval[p])
           THEN [status |-> 500, body |-> "error"]
           ELSE [status |-> 200, body |-> "news"]]
    /\ pc' = [pc EXCEPT ![p] = "done"]
    /\ PopCall(p)
    /\ UNCHANGED << clock, table, runtime, invocations, gemini_model, lastPut, handler,
                    news_type, retval, first_result, geminiCalls,
                    naverVars >>

\* faulty variant: the empty batch is not short-circuited
DecisionWithoutEmptyCheck(news, model) ==
    IF HasError(news) THEN [status |-> 500, body |-> "error"]
    ELSE IF model = "None" THEN [status |-> 503, body |-> "unconfigured"]
    ELSE NoResponse

\* faulty variant: the missing model handle is not checked
DecisionWithoutModelCheck(news, model) ==
    IF HasError(news) THEN [status |-> 500, body |-> "error"]
    ELSE IF news.items = << >> THEN [status |-> 200, body |-> "nothing"]
    ELSE NoResponse

\* what a summarize handler does with the news it got, in the order of
\* lines 208, 211 and 235 (256, 259 and 283)
SummarizeDecision(news, model) ==
    IF HasError(news) THEN [status |-> 500, body |-> "error"]
    ELSE IF news.items = << >> THEN [status |-> 200, body |-> "nothing"]
    ELSE IF model = "None" THEN [status |-> 503, body |-> "unconfigured"]
    ELSE NoResponse

\* summarize_naver_news / summarize_google_news up to the backend call
Summarize(p) ==
    /\ pc[p] = "ret"
    /\ handler[p] \notin TwoCallHandlers
    /\ LET decision == SummarizeDecision(retval[p], gemini_model)
       IN IF decision = NoResponse
          THEN /\ pc' = [pc EXCEPT ![p] = "gemini"]
               /\ UNCHANGED response
          ELSE /\ response' = [response EXCEPT ![p] = decision]
               /\ pc' = [pc EXCEPT ![p] = "done"]
    /\ PopCall(p)
    /\ UNCHANGED << clock, table, runtime, invocations, gemini_model, lastPut, handler,
                    news_type, retval, first_result, geminiCalls,
                    naverVars >>

\* lines 238-248 (286-296): generate_content, or the fallback text when it raises
GenerateContent(p) ==
    /\ pc[p] = "gemini"
    /\ \E raised \in BOOLEAN :
          response' = [response EXCEPT ![p] =
              [status |-> 200, body |-> IF raised THEN "fallback" ELSE "summary"]]
    /\ geminiCalls' = [geminiCalls EXCEPT ![p] = @ + 1]
    /\ pc' = [pc EXCEPT ![p] = "done"]
    /\ UNCHANGED << clock, table, runtime, invocations, gemini_model, lastPut, handler,
                    news_type, current_timestamp, item, getOutcome, news_data,
                    retval, first_result, fetchCount, putCount, putOutcome, naverVars >>

\* the handler has returned its response; the next invocation of its kind
\* can arrive
Return(p) ==
    /\ pc[p] = "done"
    /\ pc' = [pc EXCEPT ![p] = "idle"]
    /\ handler' = [handler EXCEPT ![p] = "idle"]
    /\ news_type' = [news_type EXCEPT ![p] = "naver"]
    /\ retval' = [retval EXCEPT ![p] = NotRun]
    /\ first_result' = [first_result EXCEPT ![p] = NotRun]
    /\ response' = [response EXCEPT ![p] = NoResponse]
    /\ geminiCalls' = [geminiCalls EXCEPT ![p] = 0]
    /\ UNCHANGED << clock, table, runtime, invocations, gemini_model, lastPut,
                    current_timestamp, item, getOutcome, news_data, fetchCount,
                    putCount, putOutcome, naverVars >>

\* time passes
Tick ==
    /\ clock + TickSeconds <= MaxTime
    /\ clock' = clock + TickSeconds
    /\ UNCHANGED << table, runtime, invocations, gemini_model, lastPut, handler, pc,
                    news_type, current_timestamp, item, getOutcome, news_data,
                    retval, first_result, response, fetchCount, putCount,
                    putOutcome, geminiCalls, naverVars >>

----------------------------------------------------------------------------
(* Specifications *)

InitProcs ==
    /\ handler = [p \in Procs |-> "idle"]
    /\ pc = [p \in Procs |-> "idle"]
    /\ news_type = [p \in Procs |-> "naver"]
    /\ current_timestamp = [p \in Procs |-> 0]
    /\ item = [p \in Procs |-> NoItem]
    /\ getOutcome = [p \in Procs |-> ""]
    /\ news_data = [p \in Procs |-> NotRun]
    /\ retval = [p \in Procs |-> NotRun]
    /\ first_result = [p \in Procs |-> NotRun]
    /\ response = [p \in Procs |-> NoResponse]
    /\ fetchCount = [p \in Procs |-> 0]
    /\ putCount = [p \in Procs |-> 0]
    /\ putOutcome = [p \in Procs |-> ""]
    /\ geminiCalls = [p \in Procs |-> 0]

InitNaver ==
    /\ apiItems = << >>
    /\ naverResult = NotRun
    /\ unidata_version = ""

\* live requests and scheduled invocations, overlapping freely or one after
\* the other, over an empty table, on either Python, with the model handle
\* configured
Init ==
    /\ clock = 0
    /\ invocations = 0
    /\ table = [c \in Categories |-> NoRecord]
    /\ runtime \in Runtimes
    /\ gemini_model = "configured"
    /\ lastPut = [c \in Categories |-> NoCall]
    /\ InitProcs
    /\ InitNaver

Next ==
    \/ \E p \in Procs : Invoke(p)
    \/ \E p \in Procs : CacheGet(p)
    \/ \E p \in Procs : ProviderFetch(p)
    \/ \E p \in Procs : CachePut(p)
    \/ \E p \in Procs : NextCall(p)
    \/ \E p \in Procs : Respond(p)
    \/ \E p \in Procs : Summarize(p)
    \/ \E p \in Procs : GenerateContent(p)
    \/ \E p \in Procs : Return(p)
    \/ Tick

Spec == Init /\ [][Next]_vars

\* the same invocations with the model handle configured, or None because
\* GOOGLE_API_KEY is unset or genai.configure raised (lines 18-28), on either
\* Python
InitBackend ==
    /\ clock = 0
    /\ invocations = 0
    /\ table = [c \in Categories |-> NoRecord]
    /\ runtime \in Runtimes
    /\ gemini_model \in {"None", "configured"}
    /\ lastPut = [c \in Categories |-> NoCall]
    /\ InitProcs
    /\ InitNaver

SpecBackend == InitBackend /\ [][Next]_vars

\* the same invocations over a table that holds records the read path cannot
\* use, on either Python
InitPoisoned ==
    /\ clock = 0
    /\ invocations = 0
    /\ table = PoisonedTable
    /\ runtime \in Runtimes
    /\ gemini_model = "configured"
    /\ lastPut = [c \in Categories |-> NoCall]
    /\ InitProcs
    /\ InitNaver

SpecPoisoned == InitPoisoned /\ [][Next]_vars

\* the Naver fetcher alone, on responses built entry by entry
InitDedup ==
    /\ clock = 0
    /\ invocations = 0
    /\ table = [c \in Categories |-> NoRecord]
    /\ runtime \in Runtimes
    /\ gemini_model = "configured"
    /\ lastPut = [c \in Categories |-> NoCall]
    /\ InitProcs
    /\ InitNaver

NextNaver ==
    \/ NaverRespond
    \/ NaverFetch

SpecNaver == InitDedup /\ [][NextNaver]_vars

----------------------------------------------------------------------------
(* The dedup rule stated on its own, for comparison with the loop *)

AllDigits(s, a, b) ==
    a <= b /\ \A k \in a..b : s[k] \in Digits(unidata_version)

\* positions where 'article/' digits '/' digit occurs
RefMatchStarts(s) ==
    {i \in 1..Len(s) :
        /\ StartsWithAt(s, ArticlePrefix, i)
        /\ \E j \in (i + Len(ArticlePrefix))..Len(s) :
              /\ AllDigits(s, i + Len(ArticlePrefix), j)
              /\ j + 2 <= Len(s)
              /\ s[j + 1] = "/"
              /\ s[j + 2] \in Digits(unidata_version)}

\* the two-part identifier of the leftmost occurrence, else the link cut at
\* its first '?' and freed of the slashes around it
RefKey(s) ==
    LET starts == RefMatchStarts(s)
    IN
    IF starts # {}
    THEN LET i == CHOOSE x \in starts : \A y \in starts : x <= y
             a == i + Len(ArticlePrefix)
             j == CHOOSE x \in a..Len(s) : AllDigits(s, a, x) /\ s[x + 1] = "/"
             k == CHOOSE x \in (j + 2)..Len(s) :
                     /\ AllDigits(s, j + 2, x)
                     /\ (x = Len(s) \/ s[x + 1] \notin Digits(unidata_version))
         IN SubSeq(s, a, j) \o << "_" >> \o SubSeq(s, j + 2, k)
    ELSE LET marks == {x \in 1..Len(s) : s[x] = "?"}
             cut == IF marks = {} THEN Len(s)
                    ELSE (CHOOSE x \in marks : \A y \in marks : x <= y) - 1
             solid == {x \in 1..cut : s[x] # "/"}
         IN IF solid = {} THEN << >>
            ELSE SubSeq(s, CHOOSE x \in solid : \A y \in solid : x <= y,
                           CHOOSE x \in solid : \A y \in solid : x >= y)

\* the keys of a list of entries, in order
RECURSIVE RefKeys(_)
RefKeys(items) ==
    IF items = << >> THEN << >>
    ELSE << RefKey(Head(items).link) >> \o RefKeys(Tail(items))

\* indexes of the entries that are the first of their key
RefFirsts(items) ==
    LET keys == RefKeys(items)
    IN {i \in 1..Len(items) : \A j \in 1..(i - 1) : keys[j] # keys[i]}

\* the n-th smallest element of a set of numbers
Nth(S, n) == CHOOSE i \in S : Cardinality({j \in S : j < i}) = n - 1

\* first of each key, in input order, at most MaxNaverNews, numbered from 1
Reference(items) ==
    LET firsts == RefFirsts(items)
        n == Min(Cardinality(firsts), MaxNaverNews)
    IN [k \in 1..n |->
           LET entry == items[Nth(firsts, k)]
           IN [id |-> k, title |-> CleanTitle(entry.title), link |-> entry.link]]

----------------------------------------------------------------------------
(* Claims *)

\* C6: for every Naver response, the batch _fetch_naver_news_from_api returns
\* is the reference result (first entry of each dedup key, in input order,
\* cut at 12); so no two items share a key, there are at most 12 of them and
\* their ids are 1..n in order.
C6_DedupMatchesReference ==
    naverResult # NotRun =>
        LET keys == RefKeys(naverResult.items)
        IN /\ naverResult = NewsList(Reference(apiItems))
           /\ Len(naverResult.items) <= MaxNaverNews
           /\ \A a, b \in 1..Len(keys) : a # b => keys[a] # keys[b]
           /\ \A a \in 1..Len(keys) : naverResult.items[a].id = a

\* a response with more than 12 distinct keys gave 12 items on an interpreter
\* with Unicode 14, and the entry it dropped as a repeat has after its
\* identifier in non-ASCII digits a character that only Unicode 15 makes a digit
C6_Witness ==
    /\ naverResult # NotRun
    /\ unidata_version = "14"
    /\ Len(naverResult.items) = MaxNaverNews
    /\ Cardinality(RefFirsts(apiItems)) > MaxNaverNews
    /\ \E i \in 1..MaxNaverNews :
          /\ i \notin RefFirsts(apiItems)
          /\ PatternSearch(apiItems[i].link, unidata_version).found
          /\ \E k \in 1..Len(apiItems[i].link) :
                apiItems[i].link[k] \in Unicode15Digits

----------------------------------------------------------------------------
(* Claims about fetch_and_cache_news and the handlers.  An invocation at   *)
(* "ret" has just returned from a call; the locals of that call are kept.  *)

SummarizeHandlers == {"summarize_naver_news", "summarize_google_news"}

NumericTtl(it) == it.ttl.py = "Decimal"

\* the call read the record the program wrote last, and it has not expired
ReadFreshRecord(p) ==
    /\ pc[p] = "ret"
    /\ getOutcome[p] # "get_raised"
    /\ item[p].present
    /\ lastPut[news_type[p]].present
    /\ item[p].data = Dumps(lastPut[news_type[p]].data)
    /\ item[p].ttl.py = "Decimal"
    /\ item[p].ttl.n = lastPut[news_type[p]].start + CACHE_TTL_SECONDS
    /\ item[p].ttl.n > current_timestamp[p]

\* the call found no record, or one whose expiresAt is not after its clock
ReadAbsentOrExpired(p) ==
    /\ pc[p] = "ret"
    /\ \/ ~item[p].present
       \/ NumericTtl(item[p]) /\ item[p].ttl.n <= current_timestamp[p]

\* the record is one the read path cannot use
Unreadable(it) ==
    it.present /\ (it.ttl.py \in {"absent", "str"} \/ it.data.enc # "json")

\* C1: a call that reads an unexpired record written by an earlier call
\* returns exactly the stored batch, without a provider fetch or a store write.
C1_HitWithinTtl ==
    \A p \in Procs :
        ReadFreshRecord(p) =>
            /\ retval[p] = item[p].data.val
            /\ fetchCount[p] = 0
            /\ putCount[p] = 0

\* the statement of C1 on Python 3.9 alone, where fromtimestamp converts the
\* Decimal ttl
HitWithinTtlOnPy39 == runtime = "py39" => C1_HitWithinTtl

\* C2: a call that finds the record absent or expired makes exactly one
\* provider fetch, and an accepted write replaces the record by the fresh
\* batch with expiresAt = (the clock read at the start of the call) + 3600.
C2_MissFetchesOnceAndOverwrites ==
    /\ [](\A p \in Procs : ReadAbsentOrExpired(p) => fetchCount[p] = 1)
    /\ [][\A p \in Procs :
            (pc[p] = "put" /\ putOutcome'[p] = "accepted") =>
                /\ table'[news_type[p]].present
                /\ table'[news_type[p]].data = Dumps(news_data[p])
                /\ table'[news_type[p]].ttl =
                       NumberAttr(current_timestamp[p] + CACHE_TTL_SECONDS)
                /\ \A c \in Categories \ {news_type[p]} : table'[c] = table[c]
         ]_vars

\* an expired record written by the program was replaced after one fetch
C2_Witness ==
    \E p \in Procs :
        /\ ReadAbsentOrExpired(p)
        /\ item[p].present /\ item[p].data.enc = "json" /\ item[p].ttl.n > 0
        /\ putOutcome[p] = "accepted"
        /\ fetchCount[p] = 1
        /\ table[news_type[p]].ttl.n = current_timestamp[p] + CACHE_TTL_SECONDS

\* C3: when the provider fetch returns an error value, the call returns that
\* value and writes nothing: the step leaves the table as it was.
C3_FetchErrorLeavesCache ==
    /\ [](\A p \in Procs :
            (pc[p] = "ret" /\ HasError(news_data[p])) =>
                retval[p] = news_data[p] /\ putCount[p] = 0)
    /\ [][\A p \in Procs :
            (pc[p] = "fetch" /\ HasError(news_data'[p])) =>
                pc'[p] = "ret" /\ table' = table
         ]_vars

\* a fetch failed over an expired record, which is still stored
C3_Witness ==
    \E p \in Procs :
        /\ pc[p] = "ret" /\ HasError(retval[p])
        /\ item[p].present /\ NumericTtl(item[p])
        /\ item[p].ttl.n <= current_timestamp[p]
        /\ ToPython(table[news_type[p]]) = item[p]

C5_RefreshAlwaysFetches ==
    \A p \in Procs :
        (handler[p] = "refresh_news_cache_handler" /\ pc[p] = "ret") =>
            fetchCount[p] = 1

\* the statement of C5 on Python 3.10 to 3.13 alone, where no read of a stored
\* record succeeds
RefreshFetchesOnPy310 == runtime = "py310" => C5_RefreshAlwaysFetches

C8_UnconfiguredAlways503 ==
    \A p \in Procs :
        (/\ handler[p] \in SummarizeHandlers
         /\ pc[p] = "done"
         /\ ~HasError(retval[p])) =>
            /\ gemini_model = "None" => response[p].status = 503
            /\ response[p].status = 200 => gemini_model = "configured"

\* C8 amended: with the backend unconfigured and no fetch error the
\* summarize handlers answer 503 for every non-empty batch; an empty batch is
\* answered 200 whatever the backend; 200 is answered only when the backend
\* is configured or the batch is empty.
C8_UnconfiguredNonEmpty503 ==
    \A p \in Procs :
        (/\ handler[p] \in SummarizeHandlers
         /\ pc[p] = "done"
         /\ ~HasError(retval[p])) =>
            /\ (gemini_model = "None" /\ retval[p].items # << >>) =>
                  response[p].status = 503
            /\ retval[p].items = << >> => response[p].status = 200
            /\ response[p].status = 200 =>
                  gemini_model = "configured" \/ retval[p].items = << >>

\* a non-empty batch met an unconfigured backend
C8_Witness ==
    \E p \in Procs :
        /\ handler[p] \in SummarizeHandlers
        /\ pc[p] = "done"
        /\ gemini_model = "None"
        /\ retval[p].kind = "list" /\ retval[p].items # << >>
        /\ response[p].status = 503

\* C9: however live requests and the scheduled handler interleave, the
\* table holds for each category one complete record: its payload is the
\* batch fetched by the call whose put_item was accepted last and its
\* expiresAt is that same call's start time plus 3600, never the payload of
\* one call with the expiresAt of another; a category no call has written
\* holds nothing.
C9_LastWriterWins ==
    \A c \in Categories :
        IF lastPut[c].present
        THEN /\ table[c].present
             /\ table[c].data = Dumps(lastPut[c].data)
             /\ table[c].ttl = NumberAttr(lastPut[c].start + CACHE_TTL_SECONDS)
        ELSE ~table[c].present

\* both found the record missing or expired, both fetched, both wrote
C9_Witness ==
    /\ \A p \in Procs :
          /\ pc[p] = "ret"
          /\ ReadAbsentOrExpired(p)
          /\ fetchCount[p] = 1
          /\ putOutcome[p] = "accepted"
    /\ news_type["request"] = news_type["scheduler"]
    /\ news_data["request"] # news_data["scheduler"]
    /\ current_timestamp["request"] # current_timestamp["scheduler"]
    /\ table[news_type["request"]].data = Dumps(news_data["request"])
    /\ table[news_type["request"]].ttl =
           NumberAttr(current_timestamp["request"] + CACHE_TTL_SECONDS)

\* C10: every record the program wrote expires 3600 s after the start of the
\* call that wrote it, so a batch served from the cache was fetched less than
\* 3600 s before the clock read by the call that serves it.
C10_StalenessBound ==
    /\ \A c \in Categories :
          table[c].present =>
              table[c].ttl = NumberAttr(table[c].startedAt + CACHE_TTL_SECONDS)
    /\ \A p \in Procs :
          getOutcome[p] = "hit" =>
              current_timestamp[p] - item[p].startedAt < CACHE_TTL_SECONDS

\* a record was served by a call that started after the one that wrote it
C10_Witness ==
    \E p \in Procs :
        /\ getOutcome[p] = "hit"
        /\ current_timestamp[p] > item[p].startedAt

====
